---- MODULE Spec2Model ----
(***************************************************************************)
(* Model of the giftimize batch scripts:                                   *)
(*   "seq"    src/index.js               sequential GIF optimizer          *)
(*   "legacy" src/unnamed/part_000:1     sequential GIF optimizer, no sizes *)
(*   "par"    src/unnamed/part_000:129   parallel GIF optimizer, pLimit(4) *)
(*   "webp"   src/convert-to-webp.js     parallel raster converter         *)
(* Every event-loop callback (top level, 'error', 'close', timer tick,     *)
(* completion of the sharp call, a p-limit dequeue) is one atomic action.  *)
(* What the external converter does with a file (whether it can be stat'ed *)
(* and launched, its exit code, the bytes it writes) is a property of the  *)
(* directory entry, fixed when the run starts.                             *)
(***************************************************************************)
EXTENDS Integers, Sequences, FiniteSets, TLC

VARIABLES
  variant,      \* which script runs
  inputExists,  \* fs.existsSync(inputDir)
  outputExists, \* fs.existsSync(outputDir)
  dir,          \* entries of inputDir, in readdirSync order
  phase,        \* position of the main control flow
  precheck,     \* state of the `gifsicle --version` child process
  precheckCodes, \* the codes handed to the 'close' handler of that process
  discovered,   \* readdirSync(inputDir) has been called
  tasks,        \* gifFiles / imageFiles: the filtered entries
  cur,          \* index of the for-loop of the sequential scripts
  queue,        \* p-limit queue of task indexes not yet run
  activeCount,  \* p-limit activeCount
  started,      \* per task: optimizeGIF / convertToWebP has been called
  proc,         \* per task: state of its child process / sharp call
  promise,      \* per task: state of the promise returned for it
  outcome,      \* per task: None, Succeeded, Fallback, Failed
  timer,        \* per task: the setInterval timer is active
  done100,      \* per task: updateProgressBar(fileName, 100, ...) was called
  out,          \* files of outputDir: destination path -> file
  log,          \* messages written by console.log / console.error
  lastTick,     \* task whose timer callback ran in the last step, 0 if none
  exitStatus    \* exit status of the node process, "none" while it runs

vars == <<variant, inputExists, outputExists, dir, phase, precheck,
          precheckCodes, discovered,
          tasks, cur, queue, activeCount, started, proc, promise, outcome,
          timer, done100, out, log, lastTick, exitStatus>>

----------------------------------------------------------------------------
(* Bounds *)
MaxFiles == 5      \* matching files in the input directory
MaxSize == 3       \* file sizes range over 1..MaxSize
MaxStride == 2     \* distance between the cases of neighbouring files
MaxBases == 2      \* base names in the directories of InitNames
MaxEntries == 3    \* entries in the directories of InitNames

(* Program constants *)
PoolSize == 4      \* pLimit(4)
SpawnErrno == -2   \* exit code handed to 'close' after a failed spawn

Variants == {"seq", "legacy", "par", "webp"}
GifVariants == {"seq", "legacy", "par"}
Sequential == {"seq", "legacy"}
Parallel == {"par", "webp"}

----------------------------------------------------------------------------
(* File names and paths *)

\* String.prototype.toLowerCase on the extensions that occur
ToLowerCase(ext) ==
  CASE ext = ".GIF" -> ".gif"
    [] ext = ".Gif" -> ".gif"
    [] ext = ".JPG" -> ".jpg"
    [] ext = ".PNG" -> ".png"
    [] ext = ".JPEG" -> ".jpeg"
    [] OTHER -> ext

\* (mutation of IsGif: the extension is compared as it is spelled)
IsGifCaseSensitive(e) == e.ext = ".gif"

\* the filter of processGIFs: path.extname(file).toLowerCase() === ".gif"
IsGif(e) == ToLowerCase(e.ext) = ".gif"

\* the filter of processImages: /\.(jpg|jpeg|png)$/i.test(path.extname(file))
IsImage(e) == ToLowerCase(e.ext) \in {".jpg", ".jpeg", ".png"}

Matches(v, e) == IF v = "webp" THEN IsImage(e) ELSE IsGif(e)

\* Array.prototype.filter, keeping the order of the listing
RECURSIVE Filter(_, _)
Filter(v, s) ==
  IF s = <<>> THEN <<>>
  ELSE IF Matches(v, Head(s)) THEN <<Head(s)>> \o Filter(v, Tail(s))
       ELSE Filter(v, Tail(s))

\* outputPath: same file name for the optimizers, basename + ".webp" for the converter
DestPath(v, e) ==
  IF v = "webp" THEN [base |-> e.base, ext |-> ".webp"]
  ELSE [base |-> e.base, ext |-> e.ext]

\* fs.statSync(inputPath).size
SrcSize(e) == MaxSize - 1

----------------------------------------------------------------------------
(* What awaits a file: statOk (fs.statSync of the source succeeds), spawnOk *)
(* (the child process launches), code (exit code of gifsicle; for sharp 0   *)
(* is a returned call and 1 a thrown error), produced (bytes written to the *)
(* destination, 0: nothing written). gifsicle writes its output whenever it *)
(* exits with 0.                                                            *)

NumCases == 2 * MaxSize + 3

Case(j) ==
  IF j = 2 * MaxSize + 2
  THEN [statOk |-> TRUE, spawnOk |-> FALSE, code |-> 1, produced |-> 0]
  ELSE IF j = 2 * MaxSize + 1
  THEN [statOk |-> FALSE, spawnOk |-> TRUE, code |-> 1, produced |-> 0]
  ELSE IF j % 2 = 1
  THEN [statOk |-> TRUE, spawnOk |-> TRUE, code |-> 0, produced |-> (j + 1) \div 2]
  ELSE [statOk |-> TRUE, spawnOk |-> TRUE, code |-> 1, produced |-> j \div 2]

Entry(b, x, c) ==
  [base |-> b, ext |-> x, statOk |-> c.statOk, spawnOk |-> c.spawnOk,
   code |-> c.code, produced |-> c.produced]

----------------------------------------------------------------------------
(* Directory snapshots the runs start from *)

GifExts == <<".gif", ".GIF">>
ImageExts == <<".png", ".jpg", ".JPEG">>

MatchingExt(v, i) ==
  IF v = "webp" THEN ImageExts[((i - 1) % Len(ImageExts)) + 1]
  ELSE GifExts[((i - 1) % Len(GifExts)) + 1]

OtherExt(v) == IF v = "webp" THEN ".gif" ELSE ".png"

\* k matching entries whose cases start at `shift` and are `stride` apart,
\* preceded by an entry of another type when shift is odd
Listing(v, k, shift, stride) ==
  (IF shift % 2 = 1 THEN <<Entry(0, OtherExt(v), Case(1))>> ELSE <<>>)
  \o [i \in 1..k |->
        Entry(i, MatchingExt(v, i), Case((shift + (i - 1) * stride) % NumCases))]

\* Directories given by their file names: any set of up to MaxEntries distinct
\* names base.ext, listed in a fixed order; the name decides the file's case.
NameExts == <<".jpg", ".png", ".gif", ".GIF">>

NameIds == 1..(MaxBases * Len(NameExts))

NamedEntry(id) ==
  Entry(((id - 1) \div Len(NameExts)) + 1,
        NameExts[((id - 1) % Len(NameExts)) + 1],
        Case((NumCases + 2 - id) % NumCases))

RECURSIVE NamedListing(_)
NamedListing(ids) ==
  IF ids = {} THEN <<>>
  ELSE LET least == CHOOSE a \in ids : \A b \in ids : a <= b
       IN <<NamedEntry(least)>> \o NamedListing(ids \ {least})

----------------------------------------------------------------------------
(* Helpers on the state *)

N == Len(tasks)
Ids == 1..N

Msg(m, i) == [msg |-> m, task |-> i]

Exists(fs, p) == p \in DOMAIN fs
WriteFile(fs, p, f) == [q \in (DOMAIN fs) \cup {p} |-> IF q = p THEN f ELSE fs[q]]

ToolFile(i, size) == [from |-> "tool", task |-> i, size |-> size]
\* fs.copyFileSync(inputPath, outputPath): the bytes of the source
CopyOf(i) == [from |-> "source", task |-> i, size |-> SrcSize(tasks[i])]

Dst(i) == DestPath(variant, tasks[i])

Settled(i) == promise[i] # "pending"
InProgress(i) == started[i] /\ promise[i] = "pending"
Queued(i) == ~started[i]

----------------------------------------------------------------------------
(* Initial states: a script, a directory snapshot, nothing run yet *)

Init ==
  /\ variant \in Variants
  /\ inputExists \in BOOLEAN
  /\ outputExists \in BOOLEAN
  /\ \E k \in 0..MaxFiles, shift \in 0..(NumCases - 1), stride \in 0..MaxStride :
        dir = Listing(variant, k, shift, stride)
  /\ phase = "boot"
  /\ precheck = "none"
  /\ precheckCodes = <<>>
  /\ discovered = FALSE
  /\ tasks = <<>>
  /\ cur = 1
  /\ queue = <<>>
  /\ activeCount = 0
  /\ started = <<>>
  /\ proc = <<>>
  /\ promise = <<>>
  /\ outcome = <<>>
  /\ timer = <<>>
  /\ done100 = <<>>
  /\ out = <<>>
  /\ log = {}
  /\ lastTick = 0
  /\ exitStatus = "none"

\* the same, for a directory given by its file names
InitNames ==
  /\ variant \in Variants
  /\ inputExists = TRUE
  /\ outputExists = FALSE
  /\ \E ids \in SUBSET NameIds :
        /\ Cardinality(ids) <= MaxEntries
        /\ dir = NamedListing(ids)
  /\ phase = "boot"
  /\ precheck = "none"
  /\ precheckCodes = <<>>
  /\ discovered = FALSE
  /\ tasks = <<>>
  /\ cur = 1
  /\ queue = <<>>
  /\ activeCount = 0
  /\ started = <<>>
  /\ proc = <<>>
  /\ promise = <<>>
  /\ outcome = <<>>
  /\ timer = <<>>
  /\ done100 = <<>>
  /\ out = <<>>
  /\ log = {}
  /\ lastTick = 0
  /\ exitStatus = "none"

----------------------------------------------------------------------------
(* The orchestrators *)

\* Body of processGIFs / processImages up to its first await.
NoneFoundNever(totalFiles) == FALSE

\* if (totalFiles === 0)
NoneFound(totalFiles) == totalFiles = 0

StartBatch ==
  IF ~inputExists
  THEN \* fs.readdirSync throws inside the async function: unhandled rejection
       /\ phase' = "crashed"
       /\ log' = log \cup {Msg("UnhandledRejection", 0)}
       /\ UNCHANGED <<discovered, tasks, cur, queue, started, proc, promise,
                      outcome, timer, done100>>
  ELSE LET found == Filter(variant, dir)
           n == Len(found)
       IN /\ discovered' = TRUE
          /\ tasks' = found
          /\ started' = [i \in 1..n |-> FALSE]
          /\ proc' = [i \in 1..n |-> "none"]
          /\ promise' = [i \in 1..n |-> "pending"]
          /\ outcome' = [i \in 1..n |-> "None"]
          /\ timer' = [i \in 1..n |-> FALSE]
          /\ done100' = [i \in 1..n |-> FALSE]
          /\ cur' = 1
          /\ IF NoneFound(n)
             THEN /\ log' = log \cup {Msg("NoFiles", 0)}
                  /\ phase' = "finished"
                  /\ queue' = <<>>
             ELSE /\ log' = log \cup {Msg("Found", 0)}
                  /\ phase' = "running"
                  /\ queue' = IF variant \in Parallel
                              THEN [i \in 1..n |-> i] ELSE <<>>

\* Top level of the script.
Boot ==
  /\ phase = "boot"
  /\ lastTick' = 0
  /\ UNCHANGED <<variant, precheckCodes, inputExists, dir, activeCount, out>>
  /\ IF variant \in Parallel /\ ~inputExists
     THEN \* console.error + process.exit(1)
          /\ log' = log \cup {Msg("DirectoryNotFound", 0)}
          /\ phase' = "exited"
          /\ exitStatus' = 1
          /\ UNCHANGED <<outputExists, precheck, discovered, tasks, cur, queue,
                         started, proc, promise, outcome, timer, done100>>
     ELSE /\ outputExists' = TRUE
          /\ exitStatus' = exitStatus
          /\ IF variant \in GifVariants
             THEN /\ precheck' = "spawned"
                  /\ phase' = "precheck"
                  /\ UNCHANGED <<discovered, tasks, cur, queue, started, proc,
                                 promise, outcome, timer, done100, log>>
             ELSE /\ precheck' = precheck
                  /\ StartBatch

\* checkGifsicle.on("error")
PrecheckError ==
  /\ phase = "precheck"
  /\ precheck = "spawned"
  /\ precheck' = "errored"
  /\ log' = log \cup {Msg("GifsicleNotInstalled", 0)}
  /\ lastTick' = 0
  /\ UNCHANGED <<variant, precheckCodes, inputExists, outputExists, dir, phase, discovered,
                 tasks, cur, queue, activeCount, started, proc, promise,
                 outcome, timer, done100, out, exitStatus>>

\* (mutation of PrecheckPassed: the batch starts whatever the exit code)
PrecheckPassedAnyCode(code) == TRUE

\* (mutation of PrecheckPassed: only a failed launch holds the batch back)
PrecheckPassedNonNegative(code) == code >= 0

\* the condition under which the 'close' handler starts the batch
PrecheckPassed(code) == code = 0

\* checkGifsicle.on("close", (code) => { if (code === 0) processGIFs(); })
PrecheckClose(code) ==
  /\ phase = "precheck"
  /\ \/ precheck = "spawned" /\ code \in {0, 1}
     \/ precheck = "errored" /\ code = SpawnErrno
  /\ precheck' = IF precheck = "errored" THEN "failed" ELSE "closed"
  /\ precheckCodes' = Append(precheckCodes, code)
  /\ lastTick' = 0
  /\ UNCHANGED <<variant, inputExists, outputExists, dir, activeCount, out,
                 exitStatus>>
  /\ IF PrecheckPassed(code)
     THEN StartBatch
     ELSE /\ phase' = "idle"
          /\ UNCHANGED <<discovered, tasks, cur, queue, started, proc, promise,
                         outcome, timer, done100, log>>

----------------------------------------------------------------------------
(* Settling a task's promise and what the orchestrator does next *)

\* promise / outcome after resolve() or reject(): a settled promise stays as it is
SettlePromise(i, r) ==
  IF promise[i] = "pending" /\ r # "none" THEN [promise EXCEPT ![i] = r] ELSE promise

\* (mutation of SettleOutcome: a later resolve / reject replaces the outcome)
SettleOutcomeAgain(i, r, o) ==
  IF r # "none" THEN [outcome EXCEPT ![i] = o] ELSE outcome

SettleOutcome(i, r, o) ==
  IF promise[i] = "pending" /\ r # "none" THEN [outcome EXCEPT ![i] = o] ELSE outcome

\* Promise.all(promises) has resolved: every promise is resolved
AllResolved(p) == \A j \in DOMAIN p : p[j] = "resolved"

\* (mutation of Release: the slot of a rejected task is never given back)
ReleaseOnSuccess(ac, r) == IF r = "rejected" THEN ac ELSE ac - 1

\* p-limit: activeCount-- when the task's promise has settled, either way
Release(ac, r) == ac - 1

\* Continuation of the orchestrator after task i called resolve / reject
\* (r = "none": neither); lg is the log the handler itself has written,
\* ac the activeCount the task held.
React(i, r, lg, ac) ==
  LET just == promise[i] = "pending" /\ r # "none"
      p2 == SettlePromise(i, r)
  IN IF ~just
     THEN /\ log' = lg
          /\ activeCount' = ac
          /\ UNCHANGED <<cur, phase>>
     ELSE IF variant \in Sequential
     THEN \* try { await optimizeGIF(...) } catch { console.error(...) }
          /\ log' = IF r = "rejected" THEN lg \cup {Msg("FailedToOptimize", i)} ELSE lg
          /\ cur' = cur + 1
          /\ activeCount' = ac
          /\ phase' = phase
     ELSE \* p-limit frees the slot; await Promise.all(promises) may settle
          /\ activeCount' = Release(ac, r)
          /\ cur' = cur
          /\ IF phase = "running" /\ r = "rejected"
             THEN /\ log' = lg \cup {Msg("BatchError", i)}
                  /\ phase' = "finished"
             ELSE IF phase = "running" /\ AllResolved(p2)
             THEN /\ log' = lg \cup {Msg("AllSuccess", 0)}
                  /\ phase' = "finished"
             ELSE /\ log' = lg
                  /\ phase' = phase

\* Synchronous part of optimizeGIF / convertToWebP for task i: statSync of the
\* source (not in the legacy script), spawn, setInterval.
StartTask(i, ac) ==
  LET ok == tasks[i].statOk \/ variant = "legacy"
  IN /\ started' = [started EXCEPT ![i] = TRUE]
     /\ proc' = [proc EXCEPT ![i] = IF ok THEN "live" ELSE "none"]
     /\ timer' = [timer EXCEPT ![i] = ok]
     /\ promise' = SettlePromise(i, IF ok THEN "none" ELSE "rejected")
     /\ outcome' = SettleOutcome(i, IF ok THEN "none" ELSE "rejected", "Failed")
     /\ React(i, IF ok THEN "none" ELSE "rejected", log, ac)
     /\ lastTick' = 0
     /\ UNCHANGED <<variant, precheckCodes, inputExists, outputExists, dir, precheck,
                    discovered, tasks, done100, out, exitStatus>>

\* (mutation of LoopIndex: the loop does not await, it goes on to the next
\* file that has not been started)
LoopIndexNoAwait ==
  IF \E i \in Ids : ~started[i]
  THEN CHOOSE i \in Ids : ~started[i] /\ \A j \in 1..(i - 1) : started[j]
  ELSE N + 1

\* the file the for loop is at: it moves on when the awaited promise settles
LoopIndex == cur

\* for (const file of gifFiles) { ... await optimizeGIF(...) ... }: next iteration
SeqStart ==
  /\ variant \in Sequential
  /\ phase = "running"
  /\ LoopIndex <= N
  /\ ~started[LoopIndex]
  /\ StartTask(LoopIndex, activeCount)
  /\ UNCHANGED queue

\* the loop is over: console.log("All files optimized successfully!")
SeqFinish ==
  /\ variant \in Sequential
  /\ phase = "running"
  /\ cur = N + 1
  /\ log' = log \cup {Msg("AllSuccess", 0)}
  /\ phase' = "finished"
  /\ lastTick' = 0
  /\ UNCHANGED <<variant, precheckCodes, inputExists, outputExists, dir, precheck, discovered,
                 tasks, cur, queue, activeCount, started, proc, promise,
                 outcome, timer, done100, out, exitStatus>>

\* (mutation of SlotFree: one task too many is let in)
SlotFreeOffByOne == activeCount <= PoolSize

\* p-limit: run the head of the queue while fewer than `concurrency` run
SlotFree == activeCount < PoolSize

\* (mutation of Dequeue: the task queued last is taken)
DequeueLast(q) == [task |-> q[Len(q)], rest |-> SubSeq(q, 1, Len(q) - 1)]

\* p-limit: queue.dequeue(), first in first out
Dequeue(q) == [task |-> Head(q), rest |-> Tail(q)]

LimitNext ==
  /\ variant \in Parallel
  /\ phase \in {"running", "finished"}
  /\ queue # <<>>
  /\ SlotFree
  /\ queue' = Dequeue(queue).rest
  /\ StartTask(Dequeue(queue).task, activeCount + 1)

\* the setInterval callback of task i
Tick(i) ==
  /\ timer[i]
  /\ lastTick' = i
  /\ UNCHANGED <<variant, precheckCodes, inputExists, outputExists, dir, phase, precheck,
                 discovered, tasks, cur, queue, activeCount, started, proc,
                 promise, outcome, timer, done100, out, log, exitStatus>>

----------------------------------------------------------------------------
(* Completion of a task *)

\* (mutation of ClearInterval: the timer is left running)
ClearIntervalForgotten(t, i) == t

\* clearInterval(interval) of task i
ClearInterval(t, i) == [t EXCEPT ![i] = FALSE]

\* fs.existsSync(outputPath) ? fs.statSync(outputPath).size : originalSize
OptimizedSize(fs, i) ==
  IF Exists(fs, Dst(i)) THEN fs[Dst(i)].size ELSE SrcSize(tasks[i])

\* (mutation of UseFallback: an output of exactly the original size is kept)
UseFallbackStrict(v, optimizedSize, originalSize) ==
  v = "par" /\ optimizedSize > originalSize

\* (mutation of UseFallback: the original is copied over every output)
UseFallbackAlways(v, optimizedSize, originalSize) ==
  v = "par"

\* if (optimizedSize >= originalSize): only the parallel optimizer has this branch
UseFallback(v, optimizedSize, originalSize) ==
  v = "par" /\ optimizedSize >= originalSize

\* if (code === 0) resolve(); else reject(...)
CloseResult(code) == IF code = 0 THEN "resolved" ELSE "rejected"

\* which 'close' handlers call updateProgressBar(fileName, 100, ...)
Shows100(v, fallback, code) ==
  \/ v = "seq"
  \/ v = "par" /\ ~fallback
  \/ v = "legacy" /\ code = 0

\* the exit code 'close' hands over, and the bytes the child has written:
\* after a failed spawn the code is the negative errno and nothing is written
ExitCode(i) == IF proc[i] = "errored" THEN SpawnErrno ELSE tasks[i].code
Produced(i) == IF proc[i] = "errored" THEN 0 ELSE tasks[i].produced

\* process.on("close", (code) => ...) of task i
ProcClose(i) ==
  /\ variant \in GifVariants
  /\ \/ proc[i] = "live" /\ tasks[i].spawnOk
     \/ proc[i] = "errored"
  /\ LET code == ExitCode(i)
         produced == Produced(i)
         fs1 == IF produced = 0 THEN out
                ELSE WriteFile(out, Dst(i), ToolFile(i, produced))
         optimizedSize == OptimizedSize(fs1, i)
         fallback == UseFallback(variant, optimizedSize, SrcSize(tasks[i]))
         r == IF fallback THEN "resolved" ELSE CloseResult(code)
         o == IF fallback THEN "Fallback"
              ELSE IF r = "resolved" THEN "Succeeded" ELSE "Failed"
         lg == IF fallback THEN log \cup {Msg("SkipLarger", i)} ELSE log
     IN /\ timer' = ClearInterval(timer, i)
        /\ proc' = [proc EXCEPT ![i] = "closed"]
        /\ out' = IF fallback THEN WriteFile(fs1, Dst(i), CopyOf(i)) ELSE fs1
        /\ done100' = [done100 EXCEPT
                         ![i] = @ \/ Shows100(variant, fallback, code)]
        /\ promise' = SettlePromise(i, r)
        /\ outcome' = SettleOutcome(i, r, o)
        /\ React(i, r, lg, activeCount)
  /\ lastTick' = 0
  /\ UNCHANGED <<variant, precheckCodes, inputExists, outputExists, dir, precheck, discovered,
                 tasks, queue, started, exitStatus>>

\* process.on("error", (err) => { clearInterval(interval); reject(err); })
ProcError(i) ==
  /\ variant \in GifVariants
  /\ proc[i] = "live"
  /\ ~tasks[i].spawnOk
  /\ timer' = ClearInterval(timer, i)
  /\ proc' = [proc EXCEPT ![i] = "errored"]
  /\ promise' = SettlePromise(i, "rejected")
  /\ outcome' = SettleOutcome(i, "rejected", "Failed")
  /\ React(i, "rejected", log, activeCount)
  /\ lastTick' = 0
  /\ UNCHANGED <<variant, precheckCodes, inputExists, outputExists, dir, precheck, discovered,
                 tasks, queue, started, done100, out, exitStatus>>

\* await sharp(inputPath).webp().toFile(outputPath) returns or throws; the
\* async function then returns either way.
SharpDone(i) ==
  /\ variant = "webp"
  /\ proc[i] = "live"
  /\ LET ok == tasks[i].code = 0 /\ tasks[i].produced > 0
         produced == tasks[i].produced
     IN
     /\ timer' = ClearInterval(timer, i)
     /\ proc' = [proc EXCEPT ![i] = "closed"]
     /\ out' = IF ok THEN WriteFile(out, Dst(i), ToolFile(i, produced)) ELSE out
     /\ done100' = [done100 EXCEPT ![i] = ok]
     /\ promise' = SettlePromise(i, "resolved")
     /\ outcome' = SettleOutcome(i, "resolved", IF ok THEN "Succeeded" ELSE "Failed")
     /\ React(i, "resolved",
              IF ok THEN log ELSE log \cup {Msg("ErrorConverting", i)}, activeCount)
  /\ lastTick' = 0
  /\ UNCHANGED <<variant, precheckCodes, inputExists, outputExists, dir, precheck, discovered,
                 tasks, queue, started, exitStatus>>

----------------------------------------------------------------------------
(* End of the process *)

\* nothing keeps the event loop alive: no child process, timer or queued task
Drained ==
  /\ precheck \in {"none", "closed", "failed"}
  /\ queue = <<>>
  /\ \A i \in Ids : started[i] /\ proc[i] \in {"none", "closed"} /\ ~timer[i]

\* exit status node gives a process that ends on its own
NaturalExitStatus == 0

\* The event loop is empty and node exits. After an unhandled rejection the
\* status depends on the node version (1 since v15, 0 with a warning before).
ProcessExit(s) ==
  /\ phase \in {"idle", "finished", "crashed"}
  /\ Drained
  /\ IF phase = "crashed" THEN s \in {NaturalExitStatus, 1} ELSE s = NaturalExitStatus
  /\ exitStatus' = s
  /\ phase' = "exited"
  /\ lastTick' = 0
  /\ UNCHANGED <<variant, precheckCodes, inputExists, outputExists, dir, precheck, discovered,
                 tasks, cur, queue, activeCount, started, proc, promise,
                 outcome, timer, done100, out, log>>

----------------------------------------------------------------------------
Next ==
  \/ Boot
  \/ PrecheckError
  \/ \E code \in {0, 1, SpawnErrno} : PrecheckClose(code)
  \/ SeqStart
  \/ SeqFinish
  \/ LimitNext
  \/ \E i \in Ids : Tick(i)
  \/ \E i \in Ids : ProcError(i)
  \/ \E i \in Ids : ProcClose(i)
  \/ \E i \in Ids : SharpDone(i)
  \/ \E s \in {0, 1} : ProcessExit(s)

Spec == Init /\ [][Next]_vars

SpecNames == InitNames /\ [][Next]_vars

\* The event loop runs every callback that is ready, and every child process
\* and every sharp call eventually ends; timers may go on ticking meanwhile.
Fairness ==
  /\ WF_vars(Boot)
  /\ WF_vars(PrecheckError)
  /\ WF_vars(\E code \in {0, 1, SpawnErrno} : PrecheckClose(code))
  /\ WF_vars(SeqStart)
  /\ WF_vars(SeqFinish)
  /\ WF_vars(LimitNext)
  /\ WF_vars(\E i \in Ids : ProcError(i))
  /\ WF_vars(\E i \in Ids : ProcClose(i))
  /\ WF_vars(\E i \in Ids : SharpDone(i))
  /\ WF_vars(\E s \in {0, 1} : ProcessExit(s))

FairSpec == Init /\ [][Next]_vars /\ Fairness

TypeOK ==
  /\ variant \in Variants
  /\ phase \in {"boot", "precheck", "idle", "running", "finished", "crashed", "exited"}
  /\ activeCount \in 0..PoolSize
  /\ \A i \in Ids : outcome[i] \in {"None", "Succeeded", "Fallback", "Failed"}

----------------------------------------------------------------------------
(* Vocabulary of the claims *)

InProgressSet == {i \in Ids : InProgress(i)}

\* the end-of-batch report of the orchestrator has been written
FinalSuccess == Msg("AllSuccess", 0) \in log
FinalError == \E i \in Ids : Msg("BatchError", i) \in log
FinalReport == FinalSuccess \/ FinalError

\* the child of task i has closed after a real run of the tool
ToolExited(i) == proc[i] = "closed" /\ tasks[i].spawnOk
\* the 'close' event of task i has been handled, and the code it carried
Closed(i) == proc[i] = "closed"
ClosedCode(i) == IF tasks[i].spawnOk THEN tasks[i].code ELSE SpawnErrno

Success(i) == outcome[i] \in {"Succeeded", "Fallback"}

----------------------------------------------------------------------------
\* C1: in the parallel scripts the number of tasks whose work has started and
\* whose promise has not settled never exceeds the pool size of 4.
C1_ConcurrencyBound ==
  variant \in Parallel => Cardinality(InProgressSet) <= PoolSize

\* C1 witness: a full pool with a task waiting behind it
C1_Witness ==
  /\ variant \in Parallel
  /\ Cardinality(InProgressSet) = PoolSize
  /\ queue # <<>>

\* C2 (as claimed): the end-of-batch report is written only when no task is
\* still queued or in progress.
C2_Barrier ==
  FinalReport => \A i \in Ids : ~Queued(i) /\ ~InProgress(i)

\* C3 (as claimed): a failed task does not divert the orchestrator into its
\* error path.
C3_NoDivert ==
  (\E i \in Ids : outcome[i] = "Failed") => ~FinalError

\* C4 (as claimed): a task of a GIF optimizer whose process closed with a
\* nonzero exit code has the outcome Failed.
C4_NonzeroFails ==
  \A i \in Ids :
    (variant \in GifVariants /\ Closed(i) /\ ClosedCode(i) # 0)
      => outcome[i] = "Failed"

\* C5: in the parallel GIF optimizer, a task whose tool left a destination
\* file at least as large as the source ends as Fallback, and its destination
\* then holds the bytes of the source.
C5_Fallback ==
  \A i \in Ids :
    (variant = "par" /\ ToolExited(i) /\ tasks[i].produced >= SrcSize(tasks[i]))
      => /\ outcome[i] = "Fallback"
         /\ Exists(out, Dst(i))
         /\ out[Dst(i)] = CopyOf(i)

\* C5 witness: such a task, with an output of exactly the original size
C5_Witness ==
  \E i \in Ids :
    /\ variant = "par"
    /\ ToolExited(i)
    /\ tasks[i].produced = SrcSize(tasks[i])
    /\ outcome[i] = "Fallback"

\* C6: in the GIF optimizers, a task whose tool exited with 0 and wrote fewer
\* bytes than the source has ends as Succeeded, and its destination keeps what
\* the tool wrote.
C6_KeepProduced ==
  \A i \in Ids :
    (/\ variant \in GifVariants
     /\ ToolExited(i)
     /\ tasks[i].code = 0
     /\ tasks[i].produced > 0
     /\ tasks[i].produced < SrcSize(tasks[i]))
      => /\ outcome[i] = "Succeeded"
         /\ Exists(out, Dst(i))
         /\ out[Dst(i)] = ToolFile(i, tasks[i].produced)

\* C6 witness: such a task in the parallel script, after the process has ended
C6_Witness ==
  \E i \in Ids :
    /\ variant = "par"
    /\ ToolExited(i)
    /\ tasks[i].code = 0
    /\ tasks[i].produced > 0
    /\ tasks[i].produced < SrcSize(tasks[i])
    /\ outcome[i] = "Succeeded"
    /\ phase = "exited"

\* C7 (as claimed): in every GIF optimizer script a task that settled with a
\* success outcome has a destination file no larger than its source.
C7_NeverLarger ==
  \A i \in Ids :
    (variant \in GifVariants /\ Success(i))
      => (Exists(out, Dst(i)) /\ out[Dst(i)].size <= SrcSize(tasks[i]))

\* C8 (as claimed): after a batch has run, the exit status is non-zero exactly
\* when some task failed.
C8_ExitStatus ==
  (phase = "exited" /\ discovered)
    => ((exitStatus # 0) <=> (\E i \in Ids : outcome[i] = "Failed"))

\* what the output of the run says about task i
ReportedFailed(i) ==
  \/ Msg("FailedToOptimize", i) \in log
  \/ Msg("BatchError", i) \in log
  \/ Msg("ErrorConverting", i) \in log
ReportedFallback(i) == Msg("SkipLarger", i) \in log
ReportedSucceeded(i) == FinalSuccess /\ ~ReportedFailed(i) /\ ~ReportedFallback(i)

\* C9 (as claimed): when the batch has ended, the output accounts for every
\* task exactly once, under the class of its outcome.
C9_Accounted ==
  (phase = "exited" /\ discovered)
    => \A i \in Ids :
         /\ ReportedFailed(i) <=> outcome[i] = "Failed"
         /\ ReportedFallback(i) <=> outcome[i] = "Fallback"
         /\ ReportedSucceeded(i) <=> outcome[i] = "Succeeded"

\* C10: once the precheck process has failed to launch, the error is reported,
\* the input directory is never listed, no task exists or starts and nothing
\* is written to the output directory.
C10_NoLaunchNoWork ==
  precheck \in {"errored", "failed"}
    => /\ Msg("GifsicleNotInstalled", 0) \in log
       /\ ~discovered
       /\ tasks = <<>>
       /\ out = <<>>
       /\ phase \in {"precheck", "idle", "exited"}

\* C10 witness: the run has ended after a precheck that could not be launched
C10_Witness ==
  /\ precheck = "failed"
  /\ phase = "exited"
  /\ outputExists

----------------------------------------------------------------------------
\* C11 (as claimed): no two tasks of one run have the same destination path.
C11_DistinctDest ==
  \A i, j \in Ids : i # j => Dst(i) # Dst(j)

\* C12 (as claimed): a run without input directory ends with the fatal
\* directory error and a non-zero exit status, and has started no task.
C12_MissingInputFatal ==
  (phase = "exited" /\ ~inputExists)
    => /\ Msg("DirectoryNotFound", 0) \in log
       /\ exitStatus # 0
       /\ \A i \in Ids : ~started[i]

\* the extensions of the allow-list in the spellings a directory can hold
Allowed(v) ==
  IF v = "webp" THEN {".jpg", ".JPG", ".jpeg", ".JPEG", ".png", ".PNG"}
  ELSE {".gif", ".GIF", ".Gif"}

NoneAllowed == \A k \in DOMAIN dir : dir[k].ext \notin Allowed(variant)

\* C13: once the directory without any matching file has been listed, 'no
\* files found' is reported and nothing else, no task exists, nothing has been
\* written, and the run exits with status 0.
C13_NoFiles ==
  (discovered /\ NoneAllowed)
    => /\ log = {Msg("NoFiles", 0)}
       /\ tasks = <<>>
       /\ out = <<>>
       /\ outputExists
       /\ phase \in {"finished", "exited"}
       /\ phase = "exited" => exitStatus = 0

\* C13 witness: an optimizer has run to its end over a directory holding
\* only a .png
C13_Witness ==
  /\ variant \in GifVariants
  /\ dir # <<>>
  /\ NoneAllowed
  /\ discovered
  /\ phase = "exited"

\* a task has its outcome exactly when its promise is settled
OutcomeMatchesPromise ==
  \A i \in Ids : outcome[i] = "None" <=> promise[i] = "pending"

\* when the process ends after a batch, every task has an outcome
NoneLeftPending ==
  (phase = "exited" /\ discovered) => \A i \in Ids : outcome[i] # "None"

\* a settled task keeps its promise state and its outcome
SettledStays ==
  \A i \in Ids :
    outcome[i] # "None" => outcome'[i] = outcome[i] /\ promise'[i] = promise[i]

\* C14: every discovered task gets exactly one outcome: its promise settles
\* once and never again (also when 'error' and 'close' both fire for it),
\* and when the run ends no task is without an outcome.
C14_OneOutcome ==
  /\ [](OutcomeMatchesPromise /\ NoneLeftPending)
  /\ [][SettledStays]_vars

\* C14 witness: gifsicle could not be spawned for a task of the parallel
\* optimizer, 'error' and then 'close' have fired, the task is still Failed
C14_Witness ==
  /\ variant = "par"
  /\ phase = "exited"
  /\ \E i \in Ids :
       /\ ~tasks[i].spawnOk
       /\ proc[i] = "closed"
       /\ Msg("SkipLarger", i) \in log
       /\ outcome[i] = "Failed"

\* every task has started and has its outcome
AllSettled == \A i \in Ids : started[i] /\ outcome[i] # "None"

\* C15: once a batch is running, eventually every discovered task has started
\* and has an outcome and the final report is out.
C15_Terminates ==
  (phase = "running") ~> (AllSettled /\ FinalReport)

\* C15 witness: a run of a parallel script has ended in which more tasks than
\* slots were discovered, the first one failed, and all have their outcome
C15_Witness ==
  /\ variant \in Parallel
  /\ N > PoolSize
  /\ phase = "exited"
  /\ outcome[1] = "Failed"
  /\ AllSettled
  /\ FinalReport

\* the queue holds the tasks not yet started, in submission order, and the
\* slots in use are those of the tasks in progress
StartedInOrder ==
  (variant \in Parallel /\ discovered)
    => /\ \A i, j \in Ids : (i < j /\ started[j]) => started[i]
       /\ Len(queue) <= N
       /\ \A k \in DOMAIN queue : queue[k] = (N - Len(queue)) + k
       /\ \A i \in Ids : started[i] <=> \A k \in DOMAIN queue : queue[k] # i
       /\ activeCount = Cardinality(InProgressSet)

\* a task starts only as the earliest queued one, into a free slot
StartsEarliest ==
  variant \in Parallel =>
    \A i \in Ids :
      (~started[i] /\ started'[i])
        => /\ queue # <<>>
           /\ i = queue[1]
           /\ Cardinality(InProgressSet) < PoolSize

\* C16: the parallel scripts start their tasks in submission order: a task
\* never starts before an earlier one, each start takes the earliest queued
\* task into a free slot, and a settled task (failed or not) holds no slot.
C16_SubmissionOrder ==
  /\ []StartedInOrder
  /\ [][StartsEarliest]_vars

\* C16 witness: the pool was full, the only task settled so far has failed,
\* and the first queued task runs in its place
C16_Witness ==
  /\ variant \in Parallel
  /\ N > PoolSize
  /\ \E i \in 1..PoolSize :
       /\ outcome[i] = "Failed"
       /\ \A j \in Ids \ {i} : outcome[j] = "None"
  /\ proc[PoolSize + 1] = "live"
  /\ Cardinality(InProgressSet) = PoolSize

\* the tasks whose gifsicle process is running or being launched
InFlight == {i \in Ids : proc[i] = "live"}

\* C17: in the sequential optimizers at most one gifsicle process is in flight
\* and the process of a file is spawned only after the task of the file before
\* it in the listing has settled.
C17_OneAtATime ==
  variant \in Sequential =>
    /\ Cardinality(InFlight) <= 1
    /\ \A i \in Ids : (i > 1 /\ started[i]) => outcome[i - 1] # "None"
    /\ \A i \in Ids : started[i] => i <= cur

\* C17 witness: the first task has failed and the process of the second runs
C17_Witness ==
  /\ variant \in Sequential
  /\ N >= 2
  /\ outcome[1] = "Failed"
  /\ proc[2] = "live"
  /\ outcome[2] = "None"

\* C18 (as claimed): every task whose conversion has ended, on whatever path,
\* has had its final progress report with percent = 100.
C18_Final100 ==
  \A i \in Ids : proc[i] = "closed" => done100[i]

\* C19: a task that has its outcome has no polling timer any more, and a
\* timer-driven progress report is only ever made for a task without outcome.
C19_TimerStopped ==
  /\ \A i \in Ids : outcome[i] # "None" => ~timer[i]
  /\ lastTick # 0 => outcome[lastTick] = "None"

\* C19 witness: one task has failed, and the timer of another task has
\* just reported
C19_Witness ==
  /\ lastTick # 0
  /\ \E i \in Ids :
       /\ i # lastTick
       /\ outcome[i] = "Failed"
       /\ proc[i] \in {"errored", "closed"}

\* C20: after discovery every directory entry whose extension is on the
\* allow-list, in whatever case, is exactly one task, every other entry is
\* none, and every task is a directory entry.
C20_Discovery ==
  discovered =>
    /\ \A k \in DOMAIN dir :
         Cardinality({i \in Ids : tasks[i] = dir[k]})
           = IF dir[k].ext \in Allowed(variant) THEN 1 ELSE 0
    /\ \A i \in Ids : \E k \in DOMAIN dir : dir[k] = tasks[i]

\* C20 witness: an optimizer has listed a directory holding an upper-case
\* .GIF, which is a task, and a .png, which is not
C20_Witness ==
  /\ variant \in GifVariants
  /\ discovered
  /\ \E k \in DOMAIN dir : dir[k].ext = ".png"
  /\ \E i \in Ids : tasks[i].ext = ".GIF"
  /\ \A i \in Ids : tasks[i].ext # ".png"

\* processGIFs has been called
BatchStarted == discovered \/ Msg("UnhandledRejection", 0) \in log

\* a started batch is not started again: its task list stays and no started
\* task goes back to not started
BatchStaysStarted ==
  BatchStarted
    => /\ tasks' = tasks
       /\ discovered' = discovered
       /\ \A i \in Ids : started[i] => started'[i]

\* the 'close' handler of the precheck runs at most once, and the batch has
\* been started or some task exists only if the code it got is 0
OnlyAfterCodeZero ==
  variant \in GifVariants
    => /\ Len(precheckCodes) <= 1
       /\ (BatchStarted \/ tasks # <<>> \/ phase \in {"running", "finished", "crashed"})
            => (precheckCodes = <<0>> /\ precheck = "closed")

\* C21: in the GIF optimizers the batch is started at most once, and only
\* when the precheck process has closed with exit code 0; after any other
\* code, or a failed launch, no task is ever listed or started.
C21_BatchAfterPrecheck ==
  /\ []OnlyAfterCodeZero
  /\ [][BatchStaysStarted]_vars

\* C21 witness: gifsicle --version was launched and exited with 1, and the run
\* has ended without listing the input directory
C21_Witness ==
  /\ variant \in GifVariants
  /\ precheck = "closed"
  /\ precheckCodes = <<1>>
  /\ phase = "exited"
  /\ ~BatchStarted
  /\ tasks = <<>>

\* C22 (as claimed): the final success message is written only in runs in
\* which no task has failed.
C22_SuccessOnlyIfNoneFailed ==
  FinalSuccess => \A i \in Ids : outcome[i] # "Failed"

====
